---------------------------- MODULE Spec2Model ----------------------------
(***************************************************************************)
(* CreateTranslatorClient (blink/renderer/modules/ai/on_device_translation *)
(* /create_translator_client.cc): the client side of one Translator.create *)
(* request.  One behaviour of the model is the lifecycle of one request:   *)
(* the availability reply, the optional user-activation gate, the binding  *)
(* of the mojo receiver, the create-request, provider progress pushes, the *)
(* CreateTranslatorResult reply, abort, and the cleanup that ends it.      *)
(***************************************************************************)
EXTENDS Integers, Sequences, FiniteSets, TLC

VARIABLES
    options,                  \* TranslatorCreateOptions the request was built from
    source_language_,         \* CreateTranslatorClient::source_language_
    target_language_,         \* CreateTranslatorClient::target_language_
    monitor_,                 \* CreateTranslatorClient::monitor_
    receiver_,                \* CreateTranslatorClient::receiver_
    resolver_,                \* what GetResolver() returns
    isServiceWorker,          \* context->IsServiceWorkerGlobalScope()
    translationAPIV1Enabled,  \* RuntimeEnabledFeatures::TranslationAPIV1Enabled()
    activation,               \* the frame holds a transient user activation
    pc,                       \* position of the request in its lifecycle
    availability,             \* the CanCreateTranslatorResult handled, or "none"
    createRequests,           \* CreateTranslator messages sent to the provider
    pipe,                     \* CreateTranslatorResult messages in flight to receiver_
    connected,                \* the provider's end of the client pipe is open
    resolverCalls,            \* calls received by the ScriptPromiseResolver
    console,                  \* console messages added to the execution context
    observed,                 \* progress events delivered to the external observer
    aborted,                  \* where the abort fired, or "no"
    resultBranch,             \* the exit OnResult took, or "none"
    lastResult,               \* the message OnResult handled, or NoMessage
    cleanups,                 \* number of times Cleanup ran
    nSent,                    \* results the provider has sent
    nPushed,                  \* progress events the provider has pushed
    build,                    \* build flags and feature switches of the audio code
    layout                    \* the MediaStreamAudioProcessingLayout built, or NoLayout

vars == <<options, source_language_, target_language_, monitor_, receiver_,
          resolver_, isServiceWorker, translationAPIV1Enabled, activation, pc,
          availability, createRequests, pipe, connected, resolverCalls,
          console, observed, aborted, resultBranch, lastResult, cleanups,
          nSent, nPushed, build, layout>>

----------------------------------------------------------------------------
(* Bounds of the model *)

\* results the provider may send on one client pipe (one is the protocol)
MaxResults == 2

\* progress events the provider may push for one request
MaxProgress == 2

----------------------------------------------------------------------------
(* Constants and pure functions of the source *)

\* The ceiling of normalized progress, declared in ai_utils.h (0x10000).
kNormalizedDownloadProgressMax == 65536

kExceptionMessageUnableToCreateTranslator ==
    "Unable to create translator for the given source and target language."

kLinkToDocument ==
    "See https://developer.chrome.com/docs/ai/translator-api?#supported-languages for more details."

\* The message of the NotAllowedError, declared in ai_utils.h; only its
\* identity matters here.
kExceptionMessageUserActivationRequired ==
    "Requires handling a user gesture when availability is downloading or downloadable."

CanCreateTranslatorResult ==
    { "kAfterDownloadLibraryNotReady",
      "kAfterDownloadLanguagePackNotReady",
      "kAfterDownloadLibraryAndLanguagePackNotReady",
      "kAfterDownloadTranslatorCreationRequired",
      "kReadily",
      "kNoNotSupportedLanguage",
      "kNoAcceptLanguagesCheckFailed",
      "kNoExceedsLanguagePackCountLimitation",
      "kNoServiceCrashed",
      "kNoDisallowedByPolicy",
      "kNoExceedsServiceCountLimitation" }

CreateTranslatorError ==
    { "kInvalidBinary",
      "kInvalidFunctionPointer",
      "kFailedToInitialize",
      "kFailedToCreateTranslator",
      "kAcceptLanguagesCheckFailed",
      "kExceedsLanguagePackCountLimitation",
      "kServiceCrashed",
      "kDisallowedByPolicy",
      "kExceedsServiceCountLimitation",
      "kExceedsPendingTaskCountLimitation",
      "kInvalidVersion" }

ConvertCreateTranslatorErrorToDebugStringFallsThrough(error) ==
    CASE error = "kInvalidBinary" ->
           "Failed to load the translation library."
      [] error = "kInvalidFunctionPointer" ->
           "The translation library is not compatible."
      [] error = "kFailedToInitialize" ->
           "Failed to initialize the translation library."
      [] error = "kFailedToCreateTranslator" ->
           "The translation library failed to create a translator."
      [] error = "kAcceptLanguagesCheckFailed" ->
           "The preferred languages check for Translator API failed. "
               \o kLinkToDocument
      [] error = "kExceedsLanguagePackCountLimitation" ->
           "The Translator API language pack count exceeded the limitation. "
               \o kLinkToDocument
      [] error = "kServiceCrashed" ->
           "The translation service crashed."
      [] error = "kDisallowedByPolicy" ->
           "The translation is disallowed by policy."
      [] error = "kExceedsServiceCountLimitation" ->
           "The translation service count exceeded the limitation."
      [] error = "kExceedsPendingTaskCountLimitation" ->
           "Too many Translator API requests are queued."
      [] OTHER -> ""

ConvertCreateTranslatorErrorToDebugString(error) ==
    CASE error = "kInvalidBinary" ->
           "Failed to load the translation library."
      [] error = "kInvalidFunctionPointer" ->
           "The translation library is not compatible."
      [] error = "kFailedToInitialize" ->
           "Failed to initialize the translation library."
      [] error = "kFailedToCreateTranslator" ->
           "The translation library failed to create a translator."
      [] error = "kAcceptLanguagesCheckFailed" ->
           "The preferred languages check for Translator API failed. "
               \o kLinkToDocument
      [] error = "kExceedsLanguagePackCountLimitation" ->
           "The Translator API language pack count exceeded the limitation. "
               \o kLinkToDocument
      [] error = "kServiceCrashed" ->
           "The translation service crashed."
      [] error = "kDisallowedByPolicy" ->
           "The translation is disallowed by policy."
      [] error = "kExceedsServiceCountLimitation" ->
           "The translation service count exceeded the limitation."
      [] error = "kExceedsPendingTaskCountLimitation" ->
           "Too many Translator API requests are queued."
      [] error = "kInvalidVersion" ->
           "The translation library version is invalid."

RequiresUserActivationOmitsCreationRequired(result) ==
    result \in { "kAfterDownloadLibraryNotReady",
                 "kAfterDownloadLanguagePackNotReady",
                 "kAfterDownloadLibraryAndLanguagePackNotReady" }

RequiresUserActivationForUnsupportedLanguage(result) ==
    result \in { "kAfterDownloadLibraryNotReady",
                 "kAfterDownloadLanguagePackNotReady",
                 "kAfterDownloadLibraryAndLanguagePackNotReady",
                 "kAfterDownloadTranslatorCreationRequired",
                 "kNoNotSupportedLanguage" }

RequiresUserActivation(result) ==
    CASE result = "kAfterDownloadLibraryNotReady" -> TRUE
      [] result = "kAfterDownloadLanguagePackNotReady" -> TRUE
      [] result = "kAfterDownloadLibraryAndLanguagePackNotReady" -> TRUE
      [] result = "kAfterDownloadTranslatorCreationRequired" -> TRUE
      [] result = "kReadily" -> FALSE
      [] result = "kNoNotSupportedLanguage" -> FALSE
      [] result = "kNoAcceptLanguagesCheckFailed" -> FALSE
      [] result = "kNoExceedsLanguagePackCountLimitation" -> FALSE
      [] result = "kNoServiceCrashed" -> FALSE
      [] result = "kNoDisallowedByPolicy" -> FALSE
      [] result = "kNoExceedsServiceCountLimitation" -> FALSE

----------------------------------------------------------------------------
(* Values exchanged with the collaborators *)

\* a CreateTranslatorResult: the translator remote, or an error
TranslatorResult == [translator |-> TRUE, error |-> "none"]
ErrorResult(e) == [translator |-> FALSE, error |-> e]
CreateTranslatorResults ==
    {TranslatorResult} \cup {ErrorResult(e) : e \in CreateTranslatorError}
NoMessage == [translator |-> FALSE, error |-> "none"]

\* A provider that keeps to the protocol replies once.  The replies a
\* misbehaving provider adds after its first are drawn from one result of
\* each kind.
RepeatedResults == {TranslatorResult, ErrorResult("kServiceCrashed")}
ResultsToSend == IF nSent = 0 THEN CreateTranslatorResults ELSE RepeatedResults

\* loaded values the provider may push
ProviderLoaded == {0, kNormalizedDownloadProgressMax \div 2,
                   kNormalizedDownloadProgressMax}

ProgressEvent(loaded, total, origin) ==
    [loaded |-> loaded, total |-> total, origin |-> origin]

\* the calls a ScriptPromiseResolver<Translator> can receive
RejectCall(name, message) ==
    [op |-> "reject", name |-> name, message |-> message,
     sourceLanguage |-> "", targetLanguage |-> ""]
ResolveCall(source, target) ==
    [op |-> "resolve", name |-> "", message |-> "",
     sourceLanguage |-> source, targetLanguage |-> target]

----------------------------------------------------------------------------
(* MediaStreamAudioProcessingLayout                                        *)
(* (blink/renderer/modules/mediastream/media_stream_audio_processing_layout.cc): *)
(* pure computation of the platform effects and WebRTC processing settings *)
(* from the requested properties.  A set of effect names stands for the    *)
(* bit mask of media::AudioParameters::PlatformEffectsMask.                *)

PlatformEffects ==
    { "ECHO_CANCELLER", "AUTOMATIC_GAIN_CONTROL", "NOISE_SUPPRESSION",
      "VOICE_ISOLATION_SUPPORTED", "VOICE_ISOLATION",
      "CLIENT_CONTROLLED_VOICE_ISOLATION", "IGNORE_UI_GAINS" }

\* the effects a device may report as available
AvailableEffects ==
    { "ECHO_CANCELLER", "AUTOMATIC_GAIN_CONTROL", "NOISE_SUPPRESSION",
      "VOICE_ISOLATION_SUPPORTED", "VOICE_ISOLATION" }

AudioProcessingProperties ==
    [echo_cancellation_type : {"kEchoCancellationDisabled",
                               "kEchoCancellationAec3",
                               "kEchoCancellationSystem"},
     noise_suppression : BOOLEAN,
     auto_gain_control : BOOLEAN,
     voice_isolation : {"kVoiceIsolationDefault", "kVoiceIsolationDisabled",
                        "kVoiceIsolationEnabled"}]

\* BUILDFLAG(IS_WIN), BUILDFLAG(IS_CHROMEOS), BUILDFLAG(IS_IOS), the two
\* base::Feature switches and the two media_switches queries
Builds ==
    [platform : {"win", "chromeos", "ios", "other"},
     kCrOSSystemVoiceIsolationOption : BOOLEAN,
     kIgnoreUiGains : BOOLEAN,
     allowNsInTandem : BOOLEAN,
     allowAgcInTandem : BOOLEAN]

DefaultBuild ==
    [platform |-> "other", kCrOSSystemVoiceIsolationOption |-> FALSE,
     kIgnoreUiGains |-> FALSE, allowNsInTandem |-> FALSE,
     allowAgcInTandem |-> FALSE]

NoSettings ==
    [echo_cancellation |-> FALSE, noise_suppression |-> FALSE,
     automatic_gain_control |-> FALSE,
     multi_channel_capture_processing |-> FALSE]

NoLayout ==
    [built |-> FALSE,
     properties_ |-> [echo_cancellation_type |-> "kEchoCancellationDisabled",
                      noise_suppression |-> FALSE,
                      auto_gain_control |-> FALSE,
                      voice_isolation |-> "kVoiceIsolationDefault"],
     available |-> {},
     platform_effects_ |-> {},
     webrtc_processing_settings_ |-> NoSettings]

IS_WIN == build.platform = "win"
IS_CHROMEOS == build.platform = "chromeos"

IsSystemEchoCancellationEnforcedAndAllowNsInTandem == build.allowNsInTandem
IsSystemEchoCancellationEnforcedAndAllowAgcInTandem == build.allowAgcInTandem

IsIndependentSystemNsAllowed == ~(IS_CHROMEOS \/ IS_WIN)

\* the first if statement: the echo cancellation type decides which of the
\* platform EC, NS and AGC effects stay enabled
ApplyEchoCancellationType(properties, effects) ==
    IF properties.echo_cancellation_type = "kEchoCancellationSystem"
    THEN IF IS_WIN
         THEN effects
         ELSE LET ns == IF ~properties.noise_suppression
                           /\ ~IsIndependentSystemNsAllowed
                        THEN effects \ {"NOISE_SUPPRESSION"}
                        ELSE effects
              IN  IF ~properties.auto_gain_control
                  THEN ns \ {"AUTOMATIC_GAIN_CONTROL"}
                  ELSE ns
    ELSE LET off == effects \ {"ECHO_CANCELLER", "AUTOMATIC_GAIN_CONTROL"}
         IN  IF ~IsIndependentSystemNsAllowed
             THEN off \ {"NOISE_SUPPRESSION"}
             ELSE off

\* the ChromeOS block: voice isolation and UI gains
ApplyChromeOSEffects(properties, effects) ==
    LET vi == IF build.kCrOSSystemVoiceIsolationOption
                 /\ "VOICE_ISOLATION_SUPPORTED" \in effects
              THEN IF properties.echo_cancellation_type = "kEchoCancellationAec3"
                      \/ properties.voice_isolation = "kVoiceIsolationDisabled"
                   THEN (effects \cup {"CLIENT_CONTROLLED_VOICE_ISOLATION"})
                          \ {"VOICE_ISOLATION"}
                   ELSE IF properties.voice_isolation = "kVoiceIsolationEnabled"
                   THEN effects \cup {"CLIENT_CONTROLLED_VOICE_ISOLATION",
                                      "VOICE_ISOLATION"}
                   ELSE effects \ {"CLIENT_CONTROLLED_VOICE_ISOLATION"}
              ELSE effects
    IN  IF build.kIgnoreUiGains /\ properties.auto_gain_control
        THEN vi \cup {"IGNORE_UI_GAINS"}
        ELSE vi

ApplyPropertiesToEffects(properties, available_platfrom_effects) ==
    LET enabled == ApplyEchoCancellationType(properties,
                                             available_platfrom_effects)
    IN  IF IS_CHROMEOS THEN ApplyChromeOSEffects(properties, enabled)
        ELSE enabled

ComputeWebrtcProcessingSettingsIgnoresPlatform(properties, enabled_platform_effects, multichannel_processing) ==
    [echo_cancellation |->
        properties.echo_cancellation_type = "kEchoCancellationAec3",
     noise_suppression |-> properties.noise_suppression,
     automatic_gain_control |-> properties.auto_gain_control,
     multi_channel_capture_processing |-> multichannel_processing]

ComputeWebrtcProcessingSettings(properties, enabled_platform_effects, multichannel_processing) ==
    [echo_cancellation |->
        properties.echo_cancellation_type = "kEchoCancellationAec3",
     noise_suppression |->
        properties.noise_suppression
        /\ (IsSystemEchoCancellationEnforcedAndAllowNsInTandem
            \/ "NOISE_SUPPRESSION" \notin enabled_platform_effects),
     automatic_gain_control |->
        properties.auto_gain_control
        /\ (IsSystemEchoCancellationEnforcedAndAllowAgcInTandem
            \/ "AUTOMATIC_GAIN_CONTROL" \notin enabled_platform_effects),
     multi_channel_capture_processing |-> multichannel_processing]

\* the constructor
MediaStreamAudioProcessingLayout(properties, available_platform_effects, channels) ==
    LET effects == ApplyPropertiesToEffects(properties,
                                            available_platform_effects)
    IN  [built |-> TRUE,
         properties_ |-> properties,
         available |-> available_platform_effects,
         platform_effects_ |-> effects,
         webrtc_processing_settings_ |->
            ComputeWebrtcProcessingSettings(properties, effects, channels > 1)]

NoiseSuppressionInTandem ==
    /\ "NOISE_SUPPRESSION" \in layout.platform_effects_
    /\ layout.webrtc_processing_settings_.noise_suppression

AutomaticGainControlInTandem ==
    /\ "AUTOMATIC_GAIN_CONTROL" \in layout.platform_effects_
    /\ layout.webrtc_processing_settings_.automatic_gain_control

----------------------------------------------------------------------------
(* Construction *)

Init ==
    /\ options \in [sourceLanguage : {"en"}, targetLanguage : {"fr", "xx"},
                    hasMonitor : BOOLEAN]
    /\ source_language_ = options.sourceLanguage
    /\ target_language_ = options.targetLanguage
    /\ monitor_ = IF options.hasMonitor THEN "created" ELSE "null"
    /\ receiver_ = "unbound"
    /\ resolver_ = "present"
    /\ isServiceWorker \in BOOLEAN
    /\ translationAPIV1Enabled \in BOOLEAN
    /\ activation \in BOOLEAN
    /\ pc = "AwaitingAvailability"
    /\ availability = "none"
    /\ createRequests = <<>>
    /\ pipe = <<>>
    /\ connected = FALSE
    /\ resolverCalls = <<>>
    /\ console = <<>>
    /\ observed = <<>>
    /\ aborted = "no"
    /\ resultBranch = "none"
    /\ lastResult = NoMessage
    /\ cleanups = 0
    /\ nSent = 0
    /\ nPushed = 0
    /\ build = DefaultBuild
    /\ layout = NoLayout

----------------------------------------------------------------------------
(* OnGotAvailability: the reply to the availability query *)

ActivationCheckedIgnoresWorker(result) ==
    /\ translationAPIV1Enabled
    /\ RequiresUserActivation(result)

\* The first three conjuncts of the condition of the if statement: only when
\* they hold is LocalFrame::ConsumeTransientUserActivation called.
ActivationChecked(result) ==
    /\ translationAPIV1Enabled
    /\ ~isServiceWorker
    /\ RequiresUserActivation(result)

\* LocalFrame::ConsumeTransientUserActivation(frame): true iff the frame held
\* an activation, which the call uses up.
ConsumeTransientUserActivation == activation

\* The whole condition: the activation was needed and there was none.
ActivationMissing(result) ==
    ActivationChecked(result) /\ ~ConsumeTransientUserActivation

\* The branch taken with the resolver present: reject and return.
OnGotAvailabilityReject(result) ==
    /\ pc = "AwaitingAvailability"
    /\ ActivationMissing(result)
    /\ resolver_ = "present"
    /\ resolverCalls' = Append(resolverCalls,
           RejectCall("NotAllowedError", kExceptionMessageUserActivationRequired))
    /\ availability' = result
    /\ pc' = "NotAllowed"
    /\ UNCHANGED <<build, layout, options, source_language_, target_language_, monitor_,
                   receiver_, resolver_, isServiceWorker,
                   translationAPIV1Enabled, activation, createRequests, pipe,
                   connected, console, observed, aborted, resultBranch,
                   lastResult, cleanups, nSent, nPushed>>

\* The same branch after an abort: GetResolver() is null and is dereferenced.
\* The build either faults or runs on to the return statement; in neither
\* case does the resolver object receive a call.
OnGotAvailabilityNullResolver(result) ==
    /\ pc = "AwaitingAvailability"
    /\ ActivationMissing(result)
    /\ resolver_ = "null"
    /\ availability' = result
    /\ pc' \in {"Crashed", "NotAllowed"}
    /\ UNCHANGED <<build, layout, options, source_language_, target_language_, monitor_,
                   receiver_, resolver_, isServiceWorker,
                   translationAPIV1Enabled, activation, createRequests, pipe,
                   connected, resolverCalls, console, observed, aborted,
                   resultBranch, lastResult, cleanups, nSent, nPushed>>

\* The rest of the function: bind receiver_, bind the monitor's remote and
\* call TranslationManager::CreateTranslator.
OnGotAvailabilityCreate(result) ==
    /\ pc = "AwaitingAvailability"
    /\ ~ActivationMissing(result)
    /\ activation' = IF ActivationChecked(result) THEN FALSE ELSE activation
    /\ receiver_' = "bound"
    /\ monitor_' = IF monitor_ # "null" THEN "bound" ELSE monitor_
    /\ createRequests' = Append(createRequests,
           [sourceLanguage |-> source_language_,
            targetLanguage |-> target_language_,
            progress_observer |-> monitor_ # "null"])
    /\ connected' = TRUE
    /\ availability' = result
    /\ pc' = "AwaitingResult"
    /\ UNCHANGED <<build, layout, options, source_language_, target_language_, resolver_,
                   isServiceWorker, translationAPIV1Enabled, pipe,
                   resolverCalls, console, observed, aborted, resultBranch,
                   lastResult, cleanups, nSent, nPushed>>

OnGotAvailability(result) ==
    \/ OnGotAvailabilityReject(result)
    \/ OnGotAvailabilityNullResolver(result)
    \/ OnGotAvailabilityCreate(result)

----------------------------------------------------------------------------
(* The provider's side of the two pipes *)

\* The provider replies on the client pipe.
ProviderSendResult(msg) ==
    /\ connected
    /\ nSent < MaxResults
    /\ pipe' = Append(pipe, msg)
    /\ nSent' = nSent + 1
    /\ UNCHANGED <<build, layout, options, source_language_, target_language_, monitor_,
                   receiver_, resolver_, isServiceWorker,
                   translationAPIV1Enabled, activation, pc, availability,
                   createRequests, connected, resolverCalls, console,
                   observed, aborted, resultBranch, lastResult, cleanups,
                   nPushed>>

\* The provider's end of the client pipe closes.  receiver_ was bound with no
\* disconnect handler, so nothing of the client runs.
ProviderDisconnect ==
    /\ connected
    /\ connected' = FALSE
    /\ UNCHANGED <<build, layout, options, source_language_, target_language_, monitor_,
                   receiver_, resolver_, isServiceWorker,
                   translationAPIV1Enabled, activation, pc, availability,
                   createRequests, pipe, resolverCalls, console, observed,
                   aborted, resultBranch, lastResult, cleanups, nSent,
                   nPushed>>

\* CreateMonitor::OnDownloadProgressUpdate reached through the remote given
\* to the provider: forwarded verbatim unless the resolver is gone.
OnProviderEvent(loaded, total) ==
    IF resolver_ = "null"
    THEN observed
    ELSE Append(observed, ProgressEvent(loaded, total, "provider"))

ProviderProgress(loaded) ==
    /\ monitor_ = "bound"
    /\ nPushed < MaxProgress
    /\ observed' = OnProviderEvent(loaded, kNormalizedDownloadProgressMax)
    /\ nPushed' = nPushed + 1
    /\ UNCHANGED <<build, layout, options, source_language_, target_language_, monitor_,
                   receiver_, resolver_, isServiceWorker,
                   translationAPIV1Enabled, activation, pc, availability,
                   createRequests, pipe, connected, resolverCalls, console,
                   aborted, resultBranch, lastResult, cleanups, nSent>>

----------------------------------------------------------------------------
(* Abort *)

\* The abort signal fires between two handlers: the resolver reference goes
\* absent.  Possible until a resolve or reject call has executed.
Abort ==
    /\ pc \in {"AwaitingAvailability", "AwaitingResult"}
    /\ resolver_ = "present"
    /\ resolverCalls = <<>>
    /\ resolver_' = "null"
    /\ aborted' = pc
    /\ UNCHANGED <<build, layout, options, source_language_, target_language_, monitor_,
                   receiver_, isServiceWorker, translationAPIV1Enabled,
                   activation, pc, availability, createRequests, pipe,
                   connected, resolverCalls, console, observed, resultBranch,
                   lastResult, cleanups, nSent, nPushed>>

----------------------------------------------------------------------------
(* OnResult: the provider's CreateTranslatorResult reaches receiver_ *)

ResetReceiverKeepsBinding == receiver_' = receiver_

\* CreateTranslatorClient::ResetReceiver
ResetReceiver == receiver_' = "reset"

\* Cleanup, run by the RunOnDestruction guard when OnResult returns: the
\* channel endpoint and the progress monitor are released and the resolver
\* reference is dropped.
Cleanup ==
    /\ ResetReceiver
    /\ monitor_' = IF monitor_ = "null" THEN "null" ELSE "released"
    /\ resolver_' = "null"
    /\ cleanups' = cleanups + 1

\* A message waits in the pipe of the bound receiver_: the task runner can
\* dispatch it to OnResult.
ResultWaiting == receiver_ = "bound" /\ pipe # <<>>

\* What every exit of OnResult shares: the message is consumed, the exit is
\* recorded, Cleanup runs.
OnResultReturns(branch) ==
    /\ pipe' = Tail(pipe)
    /\ lastResult' = Head(pipe)
    /\ resultBranch' = branch
    /\ pc' = "Done"
    /\ Cleanup
    /\ UNCHANGED <<build, layout, options, isServiceWorker, translationAPIV1Enabled,
                   activation, availability, createRequests, connected,
                   nSent, nPushed>>

\* monitor_->OnDownloadProgressUpdate called by OnResult itself: the event is
\* delivered to the observer.
EmitProgress(events, loaded) ==
    Append(events,
           ProgressEvent(loaded, kNormalizedDownloadProgressMax, "synthesized"))

\* The DOMException OnResult rejects with on an error result.
FailureExceptionLeaksKind(error) ==
    RejectCall("NotSupportedError",
               ConvertCreateTranslatorErrorToDebugString(error))

FailureException(error) ==
    RejectCall("NotSupportedError", kExceptionMessageUnableToCreateTranslator)

\* The Translator OnResult resolves with.
ResolvedTranslatorSwapsLanguages ==
    ResolveCall(target_language_, source_language_)

ResolvedTranslator == ResolveCall(source_language_, target_language_)

OnResultAbortedUsesStaleResolver ==
    /\ ResultWaiting
    /\ resolver_ = "null"
    /\ OnResultReturns("aborted")
    /\ resolverCalls' = Append(resolverCalls,
           IF Head(pipe).translator THEN ResolvedTranslator
           ELSE FailureException(Head(pipe).error))
    /\ observed' = IF Head(pipe).translator /\ monitor_ # "null"
                    THEN EmitProgress(observed, 0) ELSE observed
    /\ UNCHANGED <<source_language_, target_language_, console, aborted>>

\* if (!GetResolver()) return;
OnResultAborted ==
    /\ ResultWaiting
    /\ resolver_ = "null"
    /\ OnResultReturns("aborted")
    /\ UNCHANGED <<source_language_, target_language_, resolverCalls,
                   console, observed, aborted>>

OnResultErrorFallsThrough ==
    /\ ResultWaiting
    /\ resolver_ = "present"
    /\ ~Head(pipe).translator
    /\ OnResultReturns("error")
    /\ console' = Append(console,
           ConvertCreateTranslatorErrorToDebugString(Head(pipe).error))
    /\ resolverCalls' = resolverCalls
           \o <<FailureException(Head(pipe).error), ResolvedTranslator>>
    /\ UNCHANGED <<source_language_, target_language_, observed, aborted>>

\* if (!result->is_translator()) { log; reject; return; }
OnResultError ==
    /\ ResultWaiting
    /\ resolver_ = "present"
    /\ ~Head(pipe).translator
    /\ OnResultReturns("error")
    /\ console' = Append(console,
           ConvertCreateTranslatorErrorToDebugString(Head(pipe).error))
    /\ resolverCalls' = Append(resolverCalls,
                               FailureException(Head(pipe).error))
    /\ UNCHANGED <<source_language_, target_language_, observed, aborted>>

OnResultAbortedAfterStartNotChecked ==
    /\ ResultWaiting
    /\ resolver_ = "present"
    /\ Head(pipe).translator
    /\ monitor_ # "null"
    /\ OnResultReturns("abortedAfterStart")
    /\ observed' = EmitProgress(EmitProgress(observed, 0),
                                kNormalizedDownloadProgressMax)
    /\ aborted' = "inStart"
    /\ UNCHANGED <<source_language_, target_language_, resolverCalls, console>>

\* The start event is emitted and the observer aborts while handling it:
\* the first check after OnDownloadProgressUpdate returns.
OnResultAbortedAfterStart ==
    /\ ResultWaiting
    /\ resolver_ = "present"
    /\ Head(pipe).translator
    /\ monitor_ # "null"
    /\ OnResultReturns("abortedAfterStart")
    /\ observed' = EmitProgress(observed, 0)
    /\ aborted' = "inStart"
    /\ UNCHANGED <<source_language_, target_language_, resolverCalls, console>>

OnResultAbortedAfterCompletionResolves ==
    /\ ResultWaiting
    /\ resolver_ = "present"
    /\ Head(pipe).translator
    /\ monitor_ # "null"
    /\ OnResultReturns("abortedAfterCompletion")
    /\ observed' = EmitProgress(EmitProgress(observed, 0),
                                kNormalizedDownloadProgressMax)
    /\ aborted' = "inCompletion"
    /\ resolverCalls' = Append(resolverCalls, ResolvedTranslator)
    /\ UNCHANGED <<source_language_, target_language_, console>>

\* Both events are emitted and the observer aborts while handling the
\* completion event: the second check returns.
OnResultAbortedAfterCompletion ==
    /\ ResultWaiting
    /\ resolver_ = "present"
    /\ Head(pipe).translator
    /\ monitor_ # "null"
    /\ OnResultReturns("abortedAfterCompletion")
    /\ observed' = EmitProgress(EmitProgress(observed, 0),
                                kNormalizedDownloadProgressMax)
    /\ aborted' = "inCompletion"
    /\ UNCHANGED <<source_language_, target_language_, resolverCalls, console>>

\* No abort: the events are emitted when there is a monitor, the resolver is
\* resolved with a Translator the two language strings are moved into.
OnResultResolve ==
    /\ ResultWaiting
    /\ resolver_ = "present"
    /\ Head(pipe).translator
    /\ OnResultReturns("resolved")
    /\ observed' = IF monitor_ # "null"
                    THEN EmitProgress(EmitProgress(observed, 0),
                                      kNormalizedDownloadProgressMax)
                    ELSE observed
    /\ resolverCalls' = Append(resolverCalls, ResolvedTranslator)
    /\ source_language_' = ""
    /\ target_language_' = ""
    /\ UNCHANGED <<console, aborted>>

OnResult ==
    \/ OnResultAborted
    \/ OnResultError
    \/ OnResultAbortedAfterStart
    \/ OnResultAbortedAfterCompletion
    \/ OnResultResolve

----------------------------------------------------------------------------
(* The request's lifecycle *)

Next ==
    \/ \E result \in CanCreateTranslatorResult : OnGotAvailability(result)
    \/ \E msg \in ResultsToSend : ProviderSendResult(msg)
    \/ ProviderDisconnect
    \/ \E loaded \in ProviderLoaded : ProviderProgress(loaded)
    \/ Abort
    \/ OnResult

Spec == Init /\ [][Next]_vars

\* A layout is constructed from any properties, any available effects and
\* a mono or stereo channel count; the translator client stays as built.
Construct(properties, available_platform_effects, channels) ==
    /\ ~layout.built
    /\ layout' = MediaStreamAudioProcessingLayout(properties,
                     available_platform_effects, channels)
    /\ UNCHANGED <<build, options, source_language_, target_language_,
                   monitor_, receiver_, resolver_, isServiceWorker,
                   translationAPIV1Enabled, activation, pc, availability,
                   createRequests, pipe, connected, resolverCalls, console,
                   observed, aborted, resultBranch, lastResult, cleanups,
                   nSent, nPushed>>

LayoutInit ==
    /\ options = [sourceLanguage |-> "en", targetLanguage |-> "fr",
                  hasMonitor |-> FALSE]
    /\ source_language_ = options.sourceLanguage
    /\ target_language_ = options.targetLanguage
    /\ monitor_ = "null"
    /\ receiver_ = "unbound"
    /\ resolver_ = "present"
    /\ isServiceWorker = FALSE
    /\ translationAPIV1Enabled = TRUE
    /\ activation = FALSE
    /\ pc = "AwaitingAvailability"
    /\ availability = "none"
    /\ createRequests = <<>>
    /\ pipe = <<>>
    /\ connected = FALSE
    /\ resolverCalls = <<>>
    /\ console = <<>>
    /\ observed = <<>>
    /\ aborted = "no"
    /\ resultBranch = "none"
    /\ lastResult = NoMessage
    /\ cleanups = 0
    /\ nSent = 0
    /\ nPushed = 0
    /\ build \in Builds
    /\ layout = NoLayout

LayoutNext ==
    \E properties \in AudioProcessingProperties,
       available_platform_effects \in SUBSET AvailableEffects,
       channels \in {1, 2} :
      Construct(properties, available_platform_effects, channels)

LayoutSpec == LayoutInit /\ [][LayoutNext]_vars

\* The provider answers the availability query; once a create-request is
\* out it replies or its end of the pipe closes; the task runner dispatches
\* a message that waits in a bound receiver.
FairSpec ==
    /\ Spec
    /\ WF_vars(\E result \in CanCreateTranslatorResult :
                  OnGotAvailability(result))
    /\ WF_vars((\E msg \in ResultsToSend : ProviderSendResult(msg))
                  \/ ProviderDisconnect)
    /\ WF_vars(OnResult)

----------------------------------------------------------------------------
(* Properties *)

\* the availability results that say a download is still needed
DownloadNeeded ==
    { "kAfterDownloadLibraryNotReady",
      "kAfterDownloadLanguagePackNotReady",
      "kAfterDownloadLibraryAndLanguagePackNotReady",
      "kAfterDownloadTranslatorCreationRequired" }

NotAllowedRejection ==
    RejectCall("NotAllowedError", kExceptionMessageUserActivationRequired)

UnableToCreateRejection ==
    RejectCall("NotSupportedError", kExceptionMessageUnableToCreateTranslator)

StartEvent == [loaded |-> 0, total |-> kNormalizedDownloadProgressMax]
CompletionEvent == [loaded |-> kNormalizedDownloadProgressMax,
                    total |-> kNormalizedDownloadProgressMax]

\* an observed event without its origin
Shown(e) == [loaded |-> e.loaded, total |-> e.total]

Synthesized(loaded) ==
    ProgressEvent(loaded, kNormalizedDownloadProgressMax, "synthesized")

\* a step in which OnGotAvailability handles the availability reply
AvailabilityHandled ==
    pc = "AwaitingAvailability" /\ pc' # "AwaitingAvailability"

\* OnResult has handled a message
ResultHandled == lastResult # NoMessage

\* C1: the resolver receives at most one resolve or reject call in the whole
\* lifecycle of a request, whatever provider messages, progress pushes and
\* aborts arrive.
C1_AtMostOneResolverCall == Len(resolverCalls) <= 1

\* C1 witness: a call was made and a further provider result is in flight.
C1_Witness ==
    /\ Len(resolverCalls) = 1
    /\ ResultHandled
    /\ pipe # <<>>

\* C2 as stated: a download-needed result handled in a window without a
\* transient activation is rejected with NotAllowedError, the channel stays
\* unbound and no create-request is sent; with an activation the channel is
\* bound and exactly one create-request is sent.
C2_ActivationGatingAsStated ==
    [][ (AvailabilityHandled /\ availability' \in DownloadNeeded
            /\ ~isServiceWorker)
        => IF activation
           THEN receiver_' = "bound" /\ Len(createRequests') = 1
           ELSE /\ resolverCalls' = <<NotAllowedRejection>>
                /\ receiver_' = "unbound"
                /\ createRequests' = <<>> ]_vars

\* C2 amended: the gate applies when the TranslationAPIV1 runtime feature is
\* enabled and the request has not been aborted; then a download-needed
\* result handled in a window without an activation is rejected with
\* NotAllowedError, the channel stays unbound and no create-request is sent.
\* With an activation present, or with the feature disabled, the channel is
\* bound and exactly one create-request is sent.  Aborted or not, a request
\* stopped at the gate never binds the channel nor sends a create-request,
\* and no request sends more than one.
C2_ActivationGating ==
    /\ [][ (AvailabilityHandled /\ availability' \in DownloadNeeded
               /\ ~isServiceWorker)
           => IF activation \/ ~translationAPIV1Enabled
              THEN /\ receiver_' = "bound"
                   /\ Len(createRequests') = 1
                   /\ resolverCalls' = <<>>
              ELSE /\ resolver_ = "present"
                      => resolverCalls' = <<NotAllowedRejection>>
                   /\ receiver_' = "unbound"
                   /\ createRequests' = <<>> ]_vars
    /\ [](pc \in {"NotAllowed", "Crashed"}
             => receiver_ = "unbound" /\ createRequests = <<>>)
    /\ [](Len(createRequests) <= 1)

\* C2 witness: the gate rejected a download-needed result.
C2_Witness ==
    /\ pc = "NotAllowed"
    /\ availability \in DownloadNeeded
    /\ resolverCalls = <<NotAllowedRejection>>
    /\ receiver_ = "unbound"

\* C3 as stated: after the availability result kNoNotSupportedLanguage no
\* create-request is ever sent, and a request that has ended unaborted was
\* rejected with the fixed unable-to-create message.
C3_UnsupportedLanguageAsStated ==
    availability = "kNoNotSupportedLanguage"
    => /\ createRequests = <<>>
       /\ (pc = "Done" /\ aborted = "no")
             => resolverCalls = <<UnableToCreateRejection>>

\* C3 amended: the availability result kNoNotSupportedLanguage is not
\* stopped by OnGotAvailability: no activation is consumed, nothing is
\* rejected there, the channel is bound and the create-request is sent once.
\* The resolver is rejected only when the provider then replies with an
\* error, and that rejection carries the fixed unable-to-create message.
C3_UnsupportedLanguage ==
    availability = "kNoNotSupportedLanguage"
    => /\ Len(createRequests) = 1
       /\ receiver_ # "unbound"
       /\ pc \in {"AwaitingResult", "Done"}
       /\ \A i \in 1..Len(resolverCalls) :
             resolverCalls[i].op = "reject"
             => /\ resolverCalls[i] = UnableToCreateRejection
                /\ ResultHandled
                /\ ~lastResult.translator
       /\ (ResultHandled /\ ~lastResult.translator /\ aborted = "no")
             => resolverCalls = <<UnableToCreateRejection>>

\* C3 witness: the create-request went out for an unsupported language pair
\* and the provider's error reply was turned into the fixed rejection.
C3_Witness ==
    /\ availability = "kNoNotSupportedLanguage"
    /\ Len(createRequests) = 1
    /\ translationAPIV1Enabled
    /\ ~isServiceWorker
    /\ resolverCalls = <<UnableToCreateRejection>>

\* the provider's end closed after the create-request and before any reply
DisconnectedBeforeReply ==
    /\ createRequests # <<>>
    /\ ~connected
    /\ nSent = 0

\* C4: a disconnect after the create-request was sent and before any reply
\* leads to a rejection of the resolver (unless the request is aborted
\* first): the request does not stay pending for ever.
C4_DisconnectLeadsToRejection ==
    (DisconnectedBeforeReply /\ aborted = "no")
      ~> (aborted # "no"
          \/ \E i \in 1..Len(resolverCalls) : resolverCalls[i].op = "reject")

\* a creation that succeeded with a registered observer
SucceededWithObserver ==
    /\ options.hasMonitor
    /\ \E i \in 1..Len(resolverCalls) : resolverCalls[i].op = "resolve"

\* C5: after a successful creation with a registered observer the events
\* the observer has seen, pushed by the provider or synthesized by OnResult,
\* begin with {0, MAX} and end with {MAX, MAX}, in that order, and nothing
\* is observed after the completion event.
C5_ProgressFraming ==
    SucceededWithObserver
    => /\ Len(observed) >= 2
       /\ Shown(observed[1]) = StartEvent
       /\ Shown(observed[Len(observed)]) = CompletionEvent
       /\ observed[Len(observed)].origin = "synthesized"

\* C6: when the observer aborts while it handles the synthesized start
\* event, OnResult emits no completion event and the resolver receives no
\* call, then or later.
C6_AbortInStartEvent ==
    aborted = "inStart"
    => /\ resolverCalls = <<>>
       /\ observed # <<>>
       /\ observed[Len(observed)] = Synthesized(0)
       /\ \A i \in 1..Len(observed) :
             observed[i] # Synthesized(kNormalizedDownloadProgressMax)

\* C6 witness: the observer aborted inside the start event of a successful
\* reply.
C6_Witness ==
    /\ aborted = "inStart"
    /\ lastResult = TranslatorResult
    /\ pc = "Done"

\* the abort fired between two handlers, before OnResult ran
AbortedBeforeResult == aborted \in {"AwaitingAvailability", "AwaitingResult"}

\* C7: a provider result delivered to OnResult after the abort is handled
\* for cleanup only: the receiver is released, the resolver receives no
\* call and the observer sees no event from OnResult.
C7_ResultAfterAbort ==
    (AbortedBeforeResult /\ ResultHandled)
    => /\ resolverCalls = <<>>
       /\ \A i \in 1..Len(observed) : observed[i].origin # "synthesized"
       /\ receiver_ = "reset"

\* C7 witness: a successful reply was handled after an abort that fired
\* while the request awaited it, with an observer registered.
C7_Witness ==
    /\ aborted = "AwaitingResult"
    /\ lastResult = TranslatorResult
    /\ options.hasMonitor

C9_FailureHidesKind ==
    (ResultHandled /\ ~lastResult.translator /\ aborted = "no")
    => /\ resolverCalls = <<UnableToCreateRejection>>
       /\ console =
            <<ConvertCreateTranslatorErrorToDebugString(lastResult.error)>>

\* C9 witness: an error whose debug string carries the documentation link
\* was handled with the resolver present.
C9_Witness ==
    /\ ResultHandled
    /\ lastResult = ErrorResult("kAcceptLanguagesCheckFailed")
    /\ aborted = "no"
    /\ Len(console) = 1

\* C10: every request that is not aborted eventually receives a resolve or
\* a reject, given that the provider answers the availability query and,
\* once the create-request is out, replies or disconnects.
C10_EventuallySettled ==
    <>(aborted # "no" \/ Len(resolverCalls) = 1)


\* C11: a request aborted before its availability reply is handled never
\* binds the channel endpoint and never sends a create-request.
C11_AbortBeforeAvailabilityPreventsBinding ==
    aborted = "AwaitingAvailability"
    => receiver_ = "unbound" /\ createRequests = <<>>

\* the events the provider pushed are themselves in non-decreasing order
ProviderPushesMonotonic ==
    \A i, j \in 1..Len(observed) :
      (i < j /\ observed[i].origin = "provider"
             /\ observed[j].origin = "provider")
      => observed[i].loaded <= observed[j].loaded

\* C12: the events the observer sees during one creation, pushed by the
\* provider or synthesized by OnResult, have loaded <= total and loaded
\* values in non-decreasing order (given that the provider's own pushes are
\* in non-decreasing order).
C12_ProgressMonotonic ==
    ProviderPushesMonotonic
    => /\ \A i \in 1..Len(observed) : observed[i].loaded <= observed[i].total
       /\ \A i \in 1..(Len(observed) - 1) :
            observed[i].loaded <= observed[i + 1].loaded

\* number of observed events whose loaded value is v
CountLoaded(v) ==
    Cardinality({i \in 1..Len(observed) : observed[i].loaded = v})

\* C13: after a successful creation with a registered observer the observer
\* has seen exactly one event with loaded = 0 and exactly one with
\* loaded = total, whatever boundary events the provider pushed itself.
C13_ExactlyOneBoundaryEvent ==
    SucceededWithObserver
    => /\ CountLoaded(0) = 1
       /\ CountLoaded(kNormalizedDownloadProgressMax) = 1

\* C14: a resolve call carries the source and target language of the
\* request, and the create-request sent to the provider carried the same
\* two language codes.
C14_ResolvedLanguages ==
    /\ \A i \in 1..Len(resolverCalls) :
         resolverCalls[i].op = "resolve"
         => /\ resolverCalls[i].sourceLanguage = options.sourceLanguage
            /\ resolverCalls[i].targetLanguage = options.targetLanguage
    /\ \A i \in 1..Len(createRequests) :
         /\ createRequests[i].sourceLanguage = options.sourceLanguage
         /\ createRequests[i].targetLanguage = options.targetLanguage

\* C14 witness: availability kReadily, a translator reply, no abort: the
\* resolver was resolved for the pair en -> fr.
C14_Witness ==
    /\ availability = "kReadily"
    /\ aborted = "no"
    /\ lastResult = TranslatorResult
    /\ resolverCalls = <<ResolveCall("en", "fr")>>
    /\ Len(createRequests) = 1


\* C15: RequiresUserActivation is defined for every CanCreateTranslatorResult
\* and is true for exactly the four download-needed results: whatever result
\* OnGotAvailability has handled, the classification it used is true iff the
\* result is one of the four, and so over the whole enumeration.
C15_RequiresUserActivationPolicy ==
    /\ availability # "none"
       => /\ availability \in CanCreateTranslatorResult
          /\ RequiresUserActivation(availability)
               = (availability \in DownloadNeeded)
    /\ \A r \in CanCreateTranslatorResult :
         RequiresUserActivation(r) \in BOOLEAN
         /\ (RequiresUserActivation(r) <=> r \in DownloadNeeded)

\* C15 witness: the download-then-create result was classified and, in a
\* window with the feature enabled and no activation, stopped at the gate.
C15_Witness ==
    /\ availability = "kAfterDownloadTranslatorCreationRequired"
    /\ translationAPIV1Enabled
    /\ ~isServiceWorker
    /\ pc = "NotAllowed"
    /\ createRequests = <<>>

\* C16: each of the eleven CreateTranslatorError kinds maps to a debug
\* string that is not empty: the string logged for every error result that
\* is handled is not empty, and so over the whole enumeration.
C16_TaxonomyTotality ==
    /\ Cardinality(CreateTranslatorError) = 11
    /\ \A i \in 1..Len(console) : console[i] # ""
    /\ \A e \in CreateTranslatorError :
         ConvertCreateTranslatorErrorToDebugString(e) # ""

\* C16 witness: the last kind of the enumeration was handled and logged.
C16_Witness ==
    /\ lastResult = ErrorResult("kInvalidVersion")
    /\ console = <<"The translation library version is invalid.">>

\* C17: OnGotAvailability uses up a transient activation only for a
\* download-needed result in a window, and nothing else changes the
\* activation.  For kReadily and the blocked results, and in a service
\* worker, the activation is left as it was, nothing is rejected, the
\* channel is bound and the create-request is sent.
C17_ActivationConsumedOnlyWhenRequired ==
    [][ /\ activation' # activation
           => /\ AvailabilityHandled
              /\ availability' \in DownloadNeeded
              /\ ~isServiceWorker
        /\ (AvailabilityHandled
              /\ (availability' \notin DownloadNeeded \/ isServiceWorker))
           => /\ activation' = activation
              /\ resolverCalls' = resolverCalls
              /\ receiver_' = "bound"
              /\ Len(createRequests') = 1
              /\ pc' = "AwaitingResult" ]_vars

\* C17 witness: a download-needed result was handled in a service worker:
\* the activation is still there and the create-request is out.
C17_Witness ==
    /\ isServiceWorker
    /\ translationAPIV1Enabled
    /\ availability \in DownloadNeeded
    /\ activation
    /\ pc = "AwaitingResult"
    /\ Len(createRequests) = 1

\* C18: when the observer aborts while it handles the synthesized completion
\* event, the resolver is never resolved (it receives no call at all) and
\* Cleanup still runs.
C18_AbortInCompletionEvent ==
    aborted = "inCompletion"
    => /\ resolverCalls = <<>>
       /\ Len(observed) >= 2
       /\ observed[Len(observed) - 1] = Synthesized(0)
       /\ observed[Len(observed)] = Synthesized(kNormalizedDownloadProgressMax)
       /\ cleanups = 1
       /\ receiver_ = "reset"
       /\ monitor_ = "released"

\* C18 witness: the observer aborted inside the completion event of a
\* successful reply.
C18_Witness ==
    /\ aborted = "inCompletion"
    /\ lastResult = TranslatorResult
    /\ pc = "Done"
    /\ cleanups = 1

\* C19: once OnResult has handled the first result the receiver is released,
\* so a further result of the provider is never dispatched: it stays in the
\* pipe, and no step changes the resolver's calls, the observed events, the
\* console, the handled message or the number of cleanups.
C19_SecondResultNotDispatched ==
    [][ ResultHandled
        => /\ receiver_ = "reset" /\ receiver_' = "reset"
           /\ resolverCalls' = resolverCalls
           /\ observed' = observed
           /\ console' = console
           /\ lastResult' = lastResult
           /\ cleanups' = cleanups
           /\ Len(pipe') >= Len(pipe) ]_vars

\* C19 witness: the provider sent a second result after the first was
\* handled; it waits in the pipe of the released receiver.
C19_Witness ==
    /\ ResultHandled
    /\ nSent = 2
    /\ Len(pipe) = 1
    /\ receiver_ = "reset"
    /\ cleanups = 1


\* C20: for every layout built, noise suppression runs in tandem only if
\* properties.noise_suppression is set and the NS tandem switch is on, and
\* automatic gain control runs in tandem only if properties.auto_gain_control
\* is set and the AGC tandem switch is on; with a tandem switch off the
\* platform effect and the corresponding WebRTC setting are never both
\* enabled.
C20_TandemOnlyWhenAllowed ==
    layout.built
    => /\ NoiseSuppressionInTandem
          => /\ layout.properties_.noise_suppression
             /\ build.allowNsInTandem
       /\ AutomaticGainControlInTandem
          => /\ layout.properties_.auto_gain_control
             /\ build.allowAgcInTandem
       /\ ~build.allowNsInTandem
          => ~("NOISE_SUPPRESSION" \in layout.platform_effects_
               /\ layout.webrtc_processing_settings_.noise_suppression)
       /\ ~build.allowAgcInTandem
          => ~("AUTOMATIC_GAIN_CONTROL" \in layout.platform_effects_
               /\ layout.webrtc_processing_settings_.automatic_gain_control)

\* C20 witness: a layout with system echo cancellation in which both noise
\* suppression and gain control run in tandem.
C20_Witness ==
    /\ layout.built
    /\ layout.properties_.echo_cancellation_type = "kEchoCancellationSystem"
    /\ NoiseSuppressionInTandem
    /\ AutomaticGainControlInTandem

=============================================================================
